---- MODULE Spec2Model ----
(***************************************************************************)
(* The eth-client type script (contracts/eth-client/src/logic.rs): its     *)
(* entry point verify and the chain-view transition validator behind it.   *)
(* The cell holds an owner lock and a ChainView: the main and the uncle     *)
(* header caches.  Every transaction that spends the cell proposes an       *)
(* output cell and a witness with a header, its proofs and the index of a   *)
(* cell dep; the script accepts or rejects it.  An accepted output becomes  *)
(* the next input.                                                          *)
(*                                                                         *)
(* A HeaderInfo is the record [header, hash, total_difficulty]: the raw     *)
(* header bytes, the stored 32-byte hash and the stored cumulative          *)
(* difficulty.  Raw headers are named by small integers; what the RLP       *)
(* decoder returns for each of them is the table HeaderCodec.               *)
(***************************************************************************)
EXTENDS Integers, Sequences, FiniteSets, TLC

VARIABLES main, uncle, user_lockscript, overflow_checks, steps, last

vars == <<main, uncle, user_lockscript, overflow_checks, steps, last>>

-----------------------------------------------------------------------------
(* Bounds of the model.                                                    *)

\* MAIN_HEADER_CACHE_LIMIT and UNCLE_HEADER_CACHE_LIMIT are 500 in the
\* source; the model keeps the two rings but scales their capacity.
MAIN_HEADER_CACHE_LIMIT == 4
UNCLE_HEADER_CACHE_LIMIT == 2

\* The largest value of the unsigned integer type that stands for u64.
U64_MAX == 7

\* Accepted transitions explored from each initial view.
MaxSteps == 2

-----------------------------------------------------------------------------
(* The raw headers a witness or a HeaderInfo can carry, and their decoding. *)
(* The hash is computed from the raw bytes, so distinct raw headers have    *)
(* distinct hashes.  Headers 1..5 form a chain A-B-C-D-E from height 0;     *)
(* 6 is a header on top of C that states C's own height; 7 is a sibling of  *)
(* D whose difficulty, added to C's total difficulty, does not fit the      *)
(* integer type.                                                            *)

HeaderCodec ==
    <<  [hash |-> 11, parent_hash |-> 10, number |-> 0, difficulty |-> 1],
        [hash |-> 12, parent_hash |-> 11, number |-> 1, difficulty |-> 1],
        [hash |-> 13, parent_hash |-> 12, number |-> 2, difficulty |-> 1],
        [hash |-> 14, parent_hash |-> 13, number |-> 3, difficulty |-> 1],
        [hash |-> 15, parent_hash |-> 14, number |-> 4, difficulty |-> 2],
        [hash |-> 16, parent_hash |-> 13, number |-> 2, difficulty |-> 2],
        [hash |-> 17, parent_hash |-> 13, number |-> 3, difficulty |-> 6]  >>

RawHeaders == DOMAIN HeaderCodec

\* rlp::decode::<BlockHeader>(raw)
decode(raw) == HeaderCodec[raw]

Hashes == {decode(r).hash : r \in RawHeaders}

-----------------------------------------------------------------------------
(* verify_original_chain_data: the bounded-ring shape of an append.  An    *)
(* assert_eq! that fails panics; the other failures are error values.      *)

\* verify_original_chain_data with the at-capacity loop started at 0
\* instead of 1: the ring keeps its head.
verify_original_chain_data_keep_head(input, output, limit) ==
    IF Len(input) = Len(output) /\ Len(output) = limit
    THEN IF SubSeq(input, 1, Len(input) - 1) = SubSeq(output, 1, Len(output) - 1)
         THEN "Ok" ELSE "Panic"
    ELSE IF Len(input) < Len(output)
    THEN IF input = SubSeq(output, 1, Len(output) - 1)
         THEN "Ok" ELSE "Panic"
    ELSE "InvalidCellData"

verify_original_chain_data(input, output, limit) ==
    IF Len(input) = Len(output) /\ Len(output) = limit
    THEN IF SubSeq(input, 2, Len(input)) = SubSeq(output, 1, Len(output) - 1)
         THEN "Ok" ELSE "Panic"
    ELSE IF Len(input) < Len(output)
    THEN IF input = SubSeq(output, 1, Len(output) - 1)
         THEN "Ok" ELSE "Panic"
    ELSE "InvalidCellData"

-----------------------------------------------------------------------------
(* traverse_uncle_chain: scan the input uncle sequence from its tail for   *)
(* the entry whose stored hash is current_hash.  The loop gives up when    *)
(* the index reaches 0, before it looks at that entry.  The result carries *)
(* the new number and current_hash.                                        *)

RECURSIVE uncle_scan(_, _, _, _)
uncle_scan(uncle_input, index, current_hash, number) ==
    \* index is the 0-based index of the source
    IF index = 0
    THEN [result |-> "InvalidCellData", number |-> number, current_hash |-> current_hash]
    ELSE IF uncle_input[index + 1].hash = current_hash
         THEN [result |-> "Ok",
               number |-> number - 1,
               current_hash |-> decode(uncle_input[index + 1].header).parent_hash]
         ELSE uncle_scan(uncle_input, index - 1, current_hash, number)

traverse_uncle_chain(uncle_input, current_hash, number) ==
    IF Len(uncle_input) = 0
    THEN \* len() - 1 on an empty sequence: a panic with overflow checks,
         \* an index past the end (a panic in the reader) without them
         [result |-> "Panic", number |-> number, current_hash |-> current_hash]
    ELSE uncle_scan(uncle_input, Len(uncle_input) - 1, current_hash, number)

-----------------------------------------------------------------------------
(* The reorg branch of verify_input_output_data: the ancestor search.      *)
(* number and current_hash are the loop's two mutable variables.  The      *)
(* result carries, with the outcome, the calls of traverse_uncle_chain in  *)
(* order and the 0-based index of the fork point found in the main         *)
(* sequence (-1 when none was found).                                      *)

\* One call of traverse_uncle_chain and what it returned.
UncleCall(current_hash, number, t) ==
    [current_hash |-> current_hash, number |-> number, result |-> t.result,
     new_number |-> t.number, new_hash |-> t.current_hash]

\* reorg_search whose verified prefix of the input starts at entry 0.
RECURSIVE reorg_search_from_head(_, _, _, _, _)
reorg_search_from_head(main_input, uncle_input, main_output, number, current_hash) ==
    LET main_tail_input == decode(main_input[Len(main_input)].header)
        \* traverse_uncle_chain(..)?  and the next turn of the loop
        via_uncle ==
            LET t == traverse_uncle_chain(uncle_input, current_hash, number)
                c == UncleCall(current_hash, number, t) IN
            IF t.result # "Ok"
            THEN [result |-> t.result, calls |-> <<c>>, fork |-> -1]
            ELSE LET r == reorg_search_from_head(main_input, uncle_input, main_output,
                                       t.number, t.current_hash) IN
                 [r EXCEPT !.calls = <<c>> \o @]
    IN
    IF number = 0
    THEN [result |-> "InvalidCellData", calls |-> <<>>, fork |-> -1]
    ELSE IF main_tail_input.number <= number
    THEN \* the parent header is on uncle chain
         via_uncle
    ELSE LET offset == main_tail_input.number - number - 1 IN
         IF offset > Len(main_input)
         THEN [result |-> "InvalidCellData", calls |-> <<>>, fork |-> -1]
         ELSE IF offset = Len(main_input)
         THEN \* len() - 1 - offset underflows: a panic with overflow checks,
              \* an index past the end (a panic in the reader) without them
              [result |-> "Panic", calls |-> <<>>, fork |-> -1]
         ELSE LET index == Len(main_input) - 1 - offset   \* 0-based
                  header_info_temp == main_input[index + 1] IN
              IF header_info_temp.hash = current_hash
              THEN \* for i in 0..index  against  for i in 0..len-1 of the output
                   [result |-> IF SubSeq(main_input, 1, index)
                                    = SubSeq(main_output, 1, Len(main_output) - 1)
                               THEN "Ok" ELSE "Panic",
                    calls |-> <<>>, fork |-> index]
              ELSE via_uncle

RECURSIVE reorg_search(_, _, _, _, _)
reorg_search(main_input, uncle_input, main_output, number, current_hash) ==
    LET main_tail_input == decode(main_input[Len(main_input)].header)
        \* traverse_uncle_chain(..)?  and the next turn of the loop
        via_uncle ==
            LET t == traverse_uncle_chain(uncle_input, current_hash, number)
                c == UncleCall(current_hash, number, t) IN
            IF t.result # "Ok"
            THEN [result |-> t.result, calls |-> <<c>>, fork |-> -1]
            ELSE LET r == reorg_search(main_input, uncle_input, main_output,
                                       t.number, t.current_hash) IN
                 [r EXCEPT !.calls = <<c>> \o @]
    IN
    IF number = 0
    THEN [result |-> "InvalidCellData", calls |-> <<>>, fork |-> -1]
    ELSE IF main_tail_input.number <= number
    THEN \* the parent header is on uncle chain
         via_uncle
    ELSE LET offset == main_tail_input.number - number - 1 IN
         IF offset > Len(main_input)
         THEN [result |-> "InvalidCellData", calls |-> <<>>, fork |-> -1]
         ELSE IF offset = Len(main_input)
         THEN \* len() - 1 - offset underflows: a panic with overflow checks,
              \* an index past the end (a panic in the reader) without them
              [result |-> "Panic", calls |-> <<>>, fork |-> -1]
         ELSE LET index == Len(main_input) - 1 - offset   \* 0-based
                  header_info_temp == main_input[index + 1] IN
              IF header_info_temp.hash = current_hash
              THEN \* for i in 1..index  against  for i in 0..len-1 of the output
                   [result |-> IF SubSeq(main_input, 2, index)
                                    = SubSeq(main_output, 1, Len(main_output) - 1)
                               THEN "Ok" ELSE "Panic",
                    calls |-> <<>>, fork |-> index]
              ELSE via_uncle

-----------------------------------------------------------------------------
(* verify_input_output_data(input, output, header_raw).  input and output  *)
(* are views [main, uncle]; the result names the branch taken and the      *)
(* outcome: "Ok", the error value "InvalidCellData", or "Panic"; on the    *)
(* reorg branch it carries the record of the ancestor search.              *)

\* verify_extension without the test of the output length against
\* MAIN_HEADER_CACHE_LIMIT.
verify_extension_unbounded(input, output, header) ==
    LET in_tail == input.main[Len(input.main)]
        out_tail == output.main[Len(output.main)]
        sum == header.difficulty + in_tail.total_difficulty IN
    IF sum > U64_MAX
    THEN "Panic"
    ELSE IF out_tail.total_difficulty # sum
    THEN "Panic"
    ELSE LET r == verify_original_chain_data(input.main, output.main,
                                             MAIN_HEADER_CACHE_LIMIT) IN
         IF r # "Ok"
         THEN r
         ELSE IF input.uncle # output.uncle THEN "Panic" ELSE "Ok"

\* verify_extension with the sum of the two difficulties reduced modulo the
\* integer type instead of checked.
verify_extension_wrapping(input, output, header) ==
    LET in_tail == input.main[Len(input.main)]
        out_tail == output.main[Len(output.main)]
        sum == (header.difficulty + in_tail.total_difficulty) % (U64_MAX + 1) IN
    IF out_tail.total_difficulty # sum
    THEN "Panic"
    ELSE IF Len(output.main) > MAIN_HEADER_CACHE_LIMIT
    THEN "InvalidCellData"
    ELSE LET r == verify_original_chain_data(input.main, output.main,
                                             MAIN_HEADER_CACHE_LIMIT) IN
         IF r # "Ok"
         THEN r
         ELSE IF input.uncle # output.uncle THEN "Panic" ELSE "Ok"

verify_extension(input, output, header) ==
    LET in_tail == input.main[Len(input.main)]
        out_tail == output.main[Len(output.main)]
        sum == header.difficulty + in_tail.total_difficulty IN
    IF sum > U64_MAX                     \* checked_add(..).unwrap()
    THEN "Panic"
    ELSE IF out_tail.total_difficulty # sum
    THEN "Panic"
    ELSE IF Len(output.main) > MAIN_HEADER_CACHE_LIMIT
    THEN "InvalidCellData"
    ELSE LET r == verify_original_chain_data(input.main, output.main,
                                             MAIN_HEADER_CACHE_LIMIT) IN
         IF r # "Ok"
         THEN r
         ELSE IF input.uncle # output.uncle THEN "Panic" ELSE "Ok"

\* What the ancestor search did: whether it started, the number it started
\* from, its calls of traverse_uncle_chain and the fork point it found.
NoSearch == [ran |-> FALSE, start |-> 0, calls |-> <<>>, fork |-> -1]

Searched(start, r) ==
    [result |-> r.result,
     search |-> [ran |-> TRUE, start |-> start, calls |-> r.calls, fork |-> r.fork]]

verify_reorg(input, output, header, checks) ==
    LET in_tail == input.main[Len(input.main)]
        out_tail == output.main[Len(output.main)] IN
    IF out_tail.total_difficulty >= in_tail.total_difficulty
    THEN IF header.number = 0
         THEN \* header.number - 1 on a u64
              IF checks
              THEN [result |-> "Panic", search |-> NoSearch]
              ELSE Searched(U64_MAX,
                            reorg_search(input.main, input.uncle, output.main,
                                         U64_MAX, header.parent_hash))
         ELSE Searched(header.number - 1,
                       reorg_search(input.main, input.uncle, output.main,
                                    header.number - 1, header.parent_hash))
    ELSE [result |-> "InvalidCellData", search |-> NoSearch]

\* verify_uncle_append without the comparison of the two main sequences.
verify_uncle_append_any_main(input, output) ==
    verify_original_chain_data(input.uncle, output.uncle, UNCLE_HEADER_CACHE_LIMIT)

verify_uncle_append(input, output) ==
    LET r == verify_original_chain_data(input.uncle, output.uncle,
                                        UNCLE_HEADER_CACHE_LIMIT) IN
    IF r # "Ok"
    THEN r
    ELSE IF output.main # input.main THEN "Panic" ELSE "Ok"

\* verify_input_output_data that tells a straight extension by the heights
\* of the two headers instead of by the parent hash.
verify_input_output_data_by_height(input, output, header_raw, checks) ==
    LET header == decode(header_raw) IN
    IF Len(input.main) = 0 \/ Len(output.main) = 0
    THEN \* get_unchecked(len() - 1) of an empty sequence
         [branch |-> "none", result |-> "Panic", search |-> NoSearch]
    ELSE LET in_tail == input.main[Len(input.main)]
             out_tail == output.main[Len(output.main)] IN
         IF out_tail.header = header_raw
         THEN IF out_tail.hash # header.hash
              THEN [branch |-> "main", result |-> "Panic", search |-> NoSearch]
              ELSE IF decode(in_tail.header).number + 1 = header.number
                   THEN [branch |-> "extension",
                         result |-> verify_extension(input, output, header),
                         search |-> NoSearch]
                   ELSE LET r == verify_reorg(input, output, header, checks) IN
                        [branch |-> "reorg", result |-> r.result, search |-> r.search]
         ELSE [branch |-> "uncle", result |-> verify_uncle_append(input, output),
               search |-> NoSearch]

verify_input_output_data(input, output, header_raw, checks) ==
    LET header == decode(header_raw) IN
    IF Len(input.main) = 0 \/ Len(output.main) = 0
    THEN \* get_unchecked(len() - 1) of an empty sequence
         [branch |-> "none", result |-> "Panic", search |-> NoSearch]
    ELSE LET in_tail == input.main[Len(input.main)]
             out_tail == output.main[Len(output.main)] IN
         IF out_tail.header = header_raw
         THEN IF out_tail.hash # header.hash
              THEN [branch |-> "main", result |-> "Panic", search |-> NoSearch]
              ELSE IF decode(in_tail.header).hash = header.parent_hash
                   THEN [branch |-> "extension",
                         result |-> verify_extension(input, output, header),
                         search |-> NoSearch]
                   ELSE LET r == verify_reorg(input, output, header, checks) IN
                        [branch |-> "reorg", result |-> r.result, search |-> r.search]
         ELSE [branch |-> "uncle", result |-> verify_uncle_append(input, output),
               search |-> NoSearch]

-----------------------------------------------------------------------------
(* The rest of the script: verify, get_data, verify_data, verify_witness,  *)
(* parse_proof and parse_dep_data.  Besides the output view and the        *)
(* witness header, a transaction tx carries                                *)
(*   inputs, outputs      the number of cells of the script's group        *)
(*   user_lockscript      the owner lock stored in the output cell         *)
(*   witness              what load_witness_args(0, GroupInput) finds      *)
(*   merkle_proof         the state of the witness's proofs                *)
(*   cell_dep_index_list  the bytes of that field of the witness           *)
(* Error values are named as in the Error enum; "SysError" is the error    *)
(* converted from a failed syscall; "Panic" is a Rust panic.               *)

\* The block numbers of one DAG epoch: 30000 in the source.
EPOCH_LENGTH == 2

\* The DAG merkle root of an epoch.
DagRoot(epoch) == 100 + epoch

LastEpoch ==
    CHOOSE e \in 0..U64_MAX :
        /\ \A r \in RawHeaders : decode(r).number \div EPOCH_LENGTH <= e
        /\ \E q \in RawHeaders : decode(q).number \div EPOCH_LENGTH = e

\* The cell deps of a transaction, by index: the roots of every epoch; the
\* root of epoch 0 only; the roots shifted by one epoch; data that is not a
\* DagsMerkleRoots; the root of epoch 0 only, in a cell whose bytes make a
\* lookup past the end of the roots come back with 16 of them (those of the
\* root of epoch 1).  No other index names a cell dep.  past_end is what a
\* lookup past the end of the roots does on the cell's bytes: the roots are
\* a vector of byte strings that the reader indexes through its offset
\* table without a test of the index, so the lookup panics on a slice out of
\* range or returns bytes found in the cell.
CellDeps ==
    << [valid |-> TRUE,  roots |-> [i \in 1..(LastEpoch + 1) |-> DagRoot(i - 1)],
        past_end |-> "Panic"],
       [valid |-> TRUE,  roots |-> << DagRoot(0) >>, past_end |-> "Panic"],
       [valid |-> TRUE,  roots |-> [i \in 1..(LastEpoch + 1) |-> DagRoot(i)],
        past_end |-> "Panic"],
       [valid |-> FALSE, roots |-> << >>, past_end |-> "Panic"],
       [valid |-> TRUE,  roots |-> << DagRoot(0) >>, past_end |-> "Bytes"] >>

\* dags_merkle_roots().get_unchecked(idx) and the copy into merkle_root.
get_unchecked(dep_data, idx) ==
    IF idx < Len(dep_data.roots)
    THEN [result |-> "Ok", merkle_root |-> dep_data.roots[idx + 1]]
    ELSE IF dep_data.past_end = "Panic"
    THEN [result |-> "Panic", merkle_root |-> 0]
    ELSE [result |-> "Ok", merkle_root |-> DagRoot(1)]

\* load_cell_data(index, Source::CellDep), index counted from 0
load_cell_data(index) ==
    IF index + 1 \in DOMAIN CellDeps
    THEN [result |-> "Ok", data |-> CellDeps[index + 1]]
    ELSE [result |-> "SysError", data |-> CellDeps[1]]

\* get_data(source) for a group of count cells
get_data(count) ==
    IF count = 0 THEN "None"
    ELSE IF count = 1 THEN "Some"
    ELSE "TxInvalid"

\* verify_data that compares nothing.
verify_data_any_lock(input_lock, output_lock) ==
    "Ok"

verify_data(input_lock, output_lock) ==
    IF input_lock # output_lock THEN "InvalidDataChange" ELSE "Ok"

parse_proof(merkle_proof) ==
    IF merkle_proof = "malformed" THEN "InvalidWitness" ELSE "Ok"

parse_dep_data(cell_dep_index_list, number) ==
    IF Len(cell_dep_index_list) # 1
    THEN [result |-> "InvalidWitness", merkle_root |-> 0]
    ELSE LET dep_data == load_cell_data(cell_dep_index_list[1]) IN
         IF dep_data.result # "Ok"
         THEN [result |-> dep_data.result, merkle_root |-> 0]
         ELSE IF ~dep_data.data.valid
         THEN [result |-> "DagsMerkleRootsDataInvalid", merkle_root |-> 0]
         ELSE LET idx == number \div EPOCH_LENGTH IN
              get_unchecked(dep_data.data, idx)

\* verify_header(header, expected_hash, merkle_root, proofs): the Ethash
\* check, true when the proofs are those of the header's proof of work under
\* the DAG root of the header's epoch.
verify_header(header, expected_hash, merkle_root, proofs) ==
    /\ proofs = "valid"
    /\ merkle_root = DagRoot(header.number \div EPOCH_LENGTH)
    /\ expected_hash \in {"None", header.hash}

\* The call of verify_header a run made, if it made one.
NoPow == [called |-> FALSE, expected_hash |-> "None", merkle_root |-> 0, ok |-> FALSE]

Outcome(branch, result, search, pow) ==
    [branch |-> branch, result |-> result, search |-> search, pow |-> pow]

\* verify_witness that does not look at what verify_header returns.
verify_witness_unproved(input, output, tx, checks) ==
    IF tx.witness = "absent"
    THEN Outcome("none", "SysError", NoSearch, NoPow)
    ELSE IF tx.witness # "ok"
    THEN Outcome("none", "InvalidWitness", NoSearch, NoPow)
    ELSE LET r == verify_input_output_data(input, output, tx.header, checks)
             header == decode(tx.header) IN
         IF r.result # "Ok"
         THEN Outcome(r.branch, r.result, r.search, NoPow)
         ELSE IF parse_proof(tx.merkle_proof) # "Ok"
         THEN Outcome(r.branch, parse_proof(tx.merkle_proof), r.search, NoPow)
         ELSE LET dep == parse_dep_data(tx.cell_dep_index_list, header.number) IN
              IF dep.result # "Ok"
              THEN Outcome(r.branch, dep.result, r.search, NoPow)
              ELSE LET ok == verify_header(header, "None", dep.merkle_root,
                                           tx.merkle_proof) IN
                   Outcome(r.branch, "Ok", r.search,
                           [called |-> TRUE, expected_hash |-> "None",
                            merkle_root |-> dep.merkle_root, ok |-> ok])

verify_witness(input, output, tx, checks) ==
    IF tx.witness = "absent"
    THEN \* load_witness_args(0, Source::GroupInput)?
         Outcome("none", "SysError", NoSearch, NoPow)
    ELSE IF tx.witness # "ok"
    THEN \* no input_type, or bytes that are not a Witness
         Outcome("none", "InvalidWitness", NoSearch, NoPow)
    ELSE LET r == verify_input_output_data(input, output, tx.header, checks)
             header == decode(tx.header) IN
         IF r.result # "Ok"
         THEN Outcome(r.branch, r.result, r.search, NoPow)
         ELSE IF parse_proof(tx.merkle_proof) # "Ok"
         THEN Outcome(r.branch, parse_proof(tx.merkle_proof), r.search, NoPow)
         ELSE LET dep == parse_dep_data(tx.cell_dep_index_list, header.number) IN
              IF dep.result # "Ok"
              THEN Outcome(r.branch, dep.result, r.search, NoPow)
              ELSE LET ok == verify_header(header, "None", dep.merkle_root,
                                           tx.merkle_proof) IN
                   Outcome(r.branch,
                           IF ok THEN "Ok" ELSE "InvalidMerkleProofData",
                           r.search,
                           [called |-> TRUE, expected_hash |-> "None",
                            merkle_root |-> dep.merkle_root, ok |-> ok])

\* The whole of verify() on the cell (input, input_lock) and the transaction.
run(input, input_lock, tx, checks) ==
    IF get_data(tx.inputs) = "TxInvalid"
    THEN Outcome("none", "TxInvalid", NoSearch, NoPow)
    ELSE IF get_data(tx.inputs) = "None"
    THEN \* .expect("should not happen")
         Outcome("none", "Panic", NoSearch, NoPow)
    ELSE IF get_data(tx.outputs) = "TxInvalid"
    THEN Outcome("none", "TxInvalid", NoSearch, NoPow)
    ELSE IF get_data(tx.outputs) = "None"
    THEN Outcome("none", "Panic", NoSearch, NoPow)
    ELSE IF verify_data(input_lock, tx.user_lockscript) # "Ok"
    THEN Outcome("none", verify_data(input_lock, tx.user_lockscript), NoSearch, NoPow)
    ELSE verify_witness(input, tx.output, tx, checks)

-----------------------------------------------------------------------------
(* The views a cell can start from, and the outputs a transaction can      *)
(* propose.                                                                *)

HeaderInfo(raw, td) ==
    [header |-> raw, hash |-> decode(raw).hash, total_difficulty |-> td]

\* The chain A-B-C-D-E with its cumulative difficulties.
CanonicalChain ==
    << HeaderInfo(1, 1), HeaderInfo(2, 2), HeaderInfo(3, 3),
       HeaderInfo(4, 4), HeaderInfo(5, 6) >>

\* A cell starts from a prefix of the chain, or from one of the chain's last
\* three headers alone.
InitialMains ==
    { SubSeq(CanonicalChain, 1, b) : b \in 1..Len(CanonicalChain) }
    \cup
    { << CanonicalChain[b] >> : b \in (Len(CanonicalChain) - 2)..Len(CanonicalChain) }

\* The uncle sequence starts with header D in it, alone or followed by D's
\* sibling.
InitialUncles ==
    { << HeaderInfo(4, 4) >>, << HeaderInfo(4, 4), HeaderInfo(7, 5) >> }

\* The contiguous pieces of s that start at its first or second entry.
Slices(s) ==
    { SubSeq(s, a, b) : a \in {1, 2}, b \in 0..Len(s) }

\* Tail entries proposed for the main sequence m with witness header h:
\* h with its hash and a range of total difficulties around the tail's (the
\* sum with h's difficulty exact and reduced modulo the integer type), and h
\* under its parent's hash.
TailDifficulties(m, h) ==
    LET td == IF Len(m) = 0 THEN 0 ELSE m[Len(m)].total_difficulty IN
    {td - 1, td, td + decode(h).difficulty,
     (td + decode(h).difficulty) % (U64_MAX + 1), U64_MAX} \cap 0..U64_MAX

MainTails(m, h) ==
    { HeaderInfo(h, t) : t \in TailDifficulties(m, h) }
    \cup
    { [header |-> h, hash |-> decode(h).parent_hash, total_difficulty |-> t] :
        t \in {0, m[Len(m)].total_difficulty + decode(h).difficulty} \cap 0..U64_MAX }

\* Tail entries proposed for the uncle sequence with witness header h:
\* h itself, h under its parent's hash, and another header.
OtherHeader(h) == (h % Len(HeaderCodec)) + 1

UncleTails(h) ==
    { HeaderInfo(h, 0),
      [header |-> h, hash |-> decode(h).parent_hash, total_difficulty |-> 0],
      HeaderInfo(OtherHeader(h), 0) }

MainProposals(m, h) ==
    {m, <<>>} \cup { p \o <<e>> : p \in Slices(m), e \in MainTails(m, h) }

UncleProposals(u, h) ==
    { v \in {u, <<>>} \cup { p \o <<e>> : p \in {u, SubSeq(u, 2, Len(u)), <<>>}, e \in UncleTails(h) } :
        Len(v) <= UNCLE_HEADER_CACHE_LIMIT + 1 }

\* Main sequences whose tail is not the witness header: the input without
\* its head, without its tail, and with another header appended.
MainEdits(m, h) ==
    { SubSeq(m, 2, Len(m)), SubSeq(m, 1, Len(m) - 1),
      m \o <<HeaderInfo(OtherHeader(h), U64_MAX)>> }

\* Outputs that end the main sequence with the witness header (the uncle
\* sequence kept or emptied), outputs that keep the main sequence, and
\* outputs that edit the main sequence while they change the uncle sequence.
Proposals(m, u, h) ==
    { [main |-> om, uncle |-> ou] :
        om \in MainProposals(m, h), ou \in {u, <<>>} }
    \cup
    { [main |-> m, uncle |-> ou] : ou \in UncleProposals(u, h) }
    \cup
    { [main |-> om, uncle |-> ou] :
        om \in MainEdits(m, h), ou \in UncleProposals(u, h) }

\* The transactions of a cell's ordinary life: one cell in and one out, the
\* owner lock kept, a witness with valid proofs that names the cell dep
\* holding the roots of every epoch.
WellFormed ==
    [inputs |-> 1, outputs |-> 1, user_lockscript |-> "owner", witness |-> "ok",
     merkle_proof |-> "valid", cell_dep_index_list |-> <<0>>]

\* Every shape of the rest of the transaction.
Shapes ==
    [inputs : 0..2, outputs : 0..2, user_lockscript : {"owner", "other"},
     witness : {"absent", "no_input_type", "malformed", "ok"},
     merkle_proof : {"valid", "invalid", "malformed"},
     cell_dep_index_list : {<<>>, <<0>>, <<1>>, <<2>>, <<3>>, <<4>>, <<5>>, <<0, 1>>}]

\* Outputs proposed with every shape: the view unchanged, the witness header
\* appended to the main or to the uncle sequence (at capacity, without the
\* head), and the main sequence replaced by the witness header alone.
Appends(s, e, limit) ==
    { s \o <<e>>, IF Len(s) >= limit THEN SubSeq(s, 2, Len(s)) \o <<e>> ELSE s \o <<e>> }

EntryProposals(m, u, h) ==
    { [main |-> m, uncle |-> u] }
    \cup
    { [main |-> om, uncle |-> u] :
        om \in Appends(m, HeaderInfo(h, m[Len(m)].total_difficulty + decode(h).difficulty),
                       MAIN_HEADER_CACHE_LIMIT) \cup {<<HeaderInfo(h, U64_MAX)>>} }
    \cup
    { [main |-> m, uncle |-> ou] :
        ou \in Appends(u, HeaderInfo(h, 0), UNCLE_HEADER_CACHE_LIMIT) }

-----------------------------------------------------------------------------
(* The state machine.  main, uncle and user_lockscript are the data of the *)
(* live cell; overflow_checks is the build's integer-overflow setting;     *)
(* last is the last transaction the script ran on.                         *)

NoTx ==
    [input |-> [main |-> <<>>, uncle |-> <<>>],
     output |-> [main |-> <<>>, uncle |-> <<>>],
     header |-> 0, branch |-> "none", result |-> "None",
     input_lock |-> "owner", tx |-> WellFormed, search |-> NoSearch, pow |-> NoPow]

Init ==
    /\ main \in { m \in InitialMains : Len(m) <= MAIN_HEADER_CACHE_LIMIT }
    /\ uncle \in { u \in InitialUncles : Len(u) <= UNCLE_HEADER_CACHE_LIMIT }
    /\ user_lockscript = "owner"
    /\ overflow_checks \in BOOLEAN
    /\ steps = 0
    /\ last = NoTx

\* Commit(input, tx, r): the transaction is recorded; an accepted output
\* replaces the cell's data.
Commit(input, tx, r) ==
    /\ last' = [input |-> input, output |-> tx.output, header |-> tx.header,
                branch |-> r.branch, result |-> r.result,
                input_lock |-> user_lockscript,
                tx |-> [f \in DOMAIN WellFormed |-> tx[f]],
                search |-> r.search, pow |-> r.pow]
    /\ IF r.result = "Ok"
       THEN /\ main' = tx.output.main
            /\ uncle' = tx.output.uncle
            /\ user_lockscript' = tx.user_lockscript
            /\ steps' = steps + 1
       ELSE UNCHANGED <<main, uncle, user_lockscript, steps>>
    /\ UNCHANGED overflow_checks

\* The transaction of shape sh with output view output and witness header h.
Tx(sh, output, h) ==
    [inputs |-> sh.inputs, outputs |-> sh.outputs,
     user_lockscript |-> sh.user_lockscript, witness |-> sh.witness,
     merkle_proof |-> sh.merkle_proof,
     cell_dep_index_list |-> sh.cell_dep_index_list,
     output |-> output, header |-> h]

\* One run of the script on the transaction that spends the cell.
Spend(sh, output, h) ==
    LET input == [main |-> main, uncle |-> uncle]
        tx == Tx(sh, output, h) IN
    Commit(input, tx, run(input, user_lockscript, tx, overflow_checks))

\* The script run on the well-formed transactions that spend the cell, with
\* every proposed output view.  A rejected transaction is not committed: the
\* cell keeps its data, and the behaviour is followed no further.
verify ==
    /\ steps < MaxSteps
    /\ last.result \in {"None", "Ok"}
    /\ \E h \in RawHeaders :
         \E output \in Proposals(main, uncle, h) :
            Spend(WellFormed, output, h)

Next == verify

Spec == Init /\ [][Next]_vars

\* The script run on the first transaction that spends the cell, of every
\* shape.
verify_any ==
    /\ last.result = "None"
    /\ \E h \in RawHeaders :
         \E output \in EntryProposals(main, uncle, h) :
            \E sh \in Shapes :
               Spend(sh, output, h)

NextEntry == verify_any

SpecEntry == Init /\ [][NextEntry]_vars

-----------------------------------------------------------------------------
(* Vocabulary of the properties: the last transaction and its parts.       *)

IN_MAIN == last.input.main
IN_UNCLE == last.input.uncle
OUT_MAIN == last.output.main
OUT_UNCLE == last.output.uncle
H == decode(last.header)

Accepted(branch) == last.result = "Ok" /\ last.branch = branch

\* s without its first k entries
Drop(s, k) == SubSeq(s, k + 1, Len(s))

\* main[i+1].parent_hash = main[i].hash
HashLinked(m) ==
    \A i \in 1..(Len(m) - 1) : decode(m[i + 1].header).parent_hash = m[i].hash

\* main[i+1].total_difficulty = main[i].total_difficulty + difficulty(main[i+1])
DifficultyLinked(m) ==
    \A i \in 1..(Len(m) - 1) :
        m[i + 1].total_difficulty
            = m[i].total_difficulty + decode(m[i + 1].header).difficulty

\* hash = HeaderCodec(raw).hash for every entry
HashConsistent(s) ==
    \A i \in 1..Len(s) : s[i].hash = decode(s[i].header).hash

-----------------------------------------------------------------------------
(* Properties.                                                             *)

InTail == IN_MAIN[Len(IN_MAIN)]
OutTail == OUT_MAIN[Len(OUT_MAIN)]

\* C1: main ring discipline.  Every accepted straight extension has
\* OUT_MAIN = IN_MAIN[k..] ++ [HeaderInfo(H)] and |OUT_MAIN| <= MAIN_LIMIT,
\* with k = 1 exactly when |IN_MAIN| = MAIN_LIMIT: the head is evicted iff
\* the cache was at capacity.  HeaderInfo(H) carries the witness header, its
\* decoded hash and the input tail's total difficulty plus H's difficulty.
C1_MainRingDiscipline ==
    Accepted("extension") =>
        LET k == IF Len(IN_MAIN) = MAIN_HEADER_CACHE_LIMIT THEN 1 ELSE 0 IN
        /\ OUT_MAIN = Drop(IN_MAIN, k)
                        \o << HeaderInfo(last.header,
                                         InTail.total_difficulty + H.difficulty) >>
        /\ Len(OUT_MAIN) <= MAIN_HEADER_CACHE_LIMIT

\* An accepted straight extension of a main cache at capacity.
C1_Witness ==
    /\ Accepted("extension")
    /\ Len(IN_MAIN) = MAIN_HEADER_CACHE_LIMIT
    /\ OUT_MAIN[1] = IN_MAIN[2]

\* C2: uncle ring discipline, as claimed.  Every accepted uncle append has
\* OUT_UNCLE = IN_UNCLE[k..] ++ [e] for a k in {0,1}, where the appended
\* entry e is the witness header H with its decoded hash.
C2_UncleRingDiscipline ==
    Accepted("uncle") =>
        \E k \in {0, 1} :
            /\ Len(OUT_UNCLE) >= 1
            /\ Drop(IN_UNCLE, k) = SubSeq(OUT_UNCLE, 1, Len(OUT_UNCLE) - 1)
            /\ OUT_UNCLE[Len(OUT_UNCLE)].header = last.header
            /\ OUT_UNCLE[Len(OUT_UNCLE)].hash = H.hash

\* The transaction is a reorg onto the main-cache entry at height
\* H.number - 1: H is not in IN_MAIN, that entry is not the tail, its hash
\* is H's parent hash,
\* the output tail is H with a total difficulty not below the input tail's,
\* and OUT_MAIN is IN_MAIN from index 1 to the parent, followed by H.
ReorgOntoMainParent ==
    /\ last.result # "None"
    /\ Len(IN_MAIN) >= 2
    /\ Len(OUT_MAIN) >= 1
    /\ OutTail.header = last.header
    /\ \A i \in 1..Len(IN_MAIN) : IN_MAIN[i].header # last.header
    /\ OutTail.hash = H.hash
    /\ OutTail.total_difficulty >= InTail.total_difficulty
    /\ \E p \in 1..(Len(IN_MAIN) - 1) :
          /\ decode(IN_MAIN[p].header).number = H.number - 1
          /\ IN_MAIN[p].hash = H.parent_hash
          /\ OUT_MAIN = SubSeq(IN_MAIN, 2, p) \o <<OutTail>>

\* C3: main-cache reorg without uncle support, as claimed.  A reorg whose
\* parent is the IN_MAIN entry at height H.number - 1 is accepted, also when
\* IN_UNCLE holds no entry with the parent's hash.
C3_MainReorgAccepted ==
    ReorgOntoMainParent => last.result = "Ok"

FirstStepMatch ==
    LET number == H.number - 1
        tail_number == decode(InTail.header).number IN
    /\ H.number >= 1
    /\ number >= 1
    /\ tail_number > number
    /\ tail_number - number - 1 < Len(IN_MAIN)
    /\ IN_MAIN[Len(IN_MAIN) - (tail_number - number - 1)].hash = H.parent_hash

\* C5: main chain continuity under reorg, as claimed.  An accepted reorg
\* whose fork point is matched at the first step, with |OUT_MAIN| >= 2, has
\* its new tail linked to its predecessor in the output.
C5_ContinuityUnderReorg ==
    (Accepted("reorg") /\ FirstStepMatch /\ Len(OUT_MAIN) >= 2)
        => H.parent_hash = OUT_MAIN[Len(OUT_MAIN) - 1].hash

\* C6: cumulative-difficulty invariant, as claimed.  Every accepted
\* transition of a view whose main sequence adds up its difficulties yields
\* a view whose main sequence does.
C6_CumulativeDifficulty ==
    (last.result = "Ok" /\ DifficultyLinked(IN_MAIN)) => DifficultyLinked(OUT_MAIN)

\* C7: hash consistency, as claimed.  Every accepted transition of a view
\* whose entries all store the decoded hash of their raw header yields a
\* view whose entries all do.
C7_HashConsistency ==
    (last.result = "Ok" /\ HashConsistent(IN_MAIN) /\ HashConsistent(IN_UNCLE))
        => (HashConsistent(OUT_MAIN) /\ HashConsistent(OUT_UNCLE))

\* C8: uncle cache bound, as claimed.  The uncle sequence of the cell's view
\* never has more than UNCLE_LIMIT entries.
C8_UncleCacheBound ==
    Len(uncle) <= UNCLE_HEADER_CACHE_LIMIT

\* C9: main cache bound.  The main sequence of the cell's view never has
\* more than MAIN_LIMIT entries, whatever transitions were accepted.
C9_MainCacheBound ==
    Len(main) <= MAIN_HEADER_CACHE_LIMIT

\* A transition accepted from a main cache at capacity that put a new tail
\* on it.
C9_Witness ==
    /\ last.result = "Ok"
    /\ last.branch \in {"extension", "reorg"}
    /\ Len(IN_MAIN) = MAIN_HEADER_CACHE_LIMIT
    /\ main = OUT_MAIN
    /\ Len(main) = MAIN_HEADER_CACHE_LIMIT

\* C10: frame of the untouched cache.  Every accepted straight extension
\* leaves the uncle sequence as it was, and every accepted uncle append
\* leaves the main sequence as it was.
C10_UntouchedCache ==
    /\ Accepted("extension") => OUT_UNCLE = IN_UNCLE
    /\ Accepted("uncle") => OUT_MAIN = IN_MAIN

\* An accepted uncle append that changed the uncle sequence.
C10_Witness ==
    /\ Accepted("uncle")
    /\ OUT_UNCLE # IN_UNCLE
    /\ OUT_MAIN = IN_MAIN

\* The transaction reached the straight-extension branch: the output tail is
\* the witness header under its own hash, and the input tail is its parent.
ExtensionCandidate ==
    /\ last.branch = "extension"
    /\ OutTail.header = last.header
    /\ InTail.hash = H.parent_hash

\* C11: difficulty law on extension.  Every accepted straight extension has
\* out_tail.total_difficulty = in_tail.total_difficulty + H.difficulty as
\* integers, the sum within the unsigned 64-bit range; an extension whose sum
\* exceeds the range is never accepted.
C11_DifficultyLawOnExtension ==
    /\ Accepted("extension") =>
          /\ OutTail.total_difficulty = InTail.total_difficulty + H.difficulty
          /\ InTail.total_difficulty + H.difficulty <= U64_MAX
    /\ (ExtensionCandidate /\ InTail.total_difficulty + H.difficulty > U64_MAX)
          => last.result # "Ok"

\* An accepted straight extension by a header of difficulty above 1 that
\* brings the total difficulty to within one header of the range's end.
C11_Witness ==
    /\ Accepted("extension")
    /\ H.difficulty > 1
    /\ OutTail.total_difficulty = InTail.total_difficulty + H.difficulty
    /\ OutTail.total_difficulty + H.difficulty >= U64_MAX

\* A straight extension whose sum does not fit, proposed with the sum
\* reduced modulo the integer type.
C11_OverflowProposed ==
    /\ ExtensionCandidate
    /\ InTail.total_difficulty + H.difficulty > U64_MAX
    /\ OutTail.total_difficulty
         = (InTail.total_difficulty + H.difficulty) % (U64_MAX + 1)

\* The transaction is a candidate reorg: the output tail carries the witness
\* header, and the input tail is not the parent of that header.
ReorgCandidate ==
    /\ last.result # "None"
    /\ last.tx = WellFormed
    /\ Len(IN_MAIN) >= 1
    /\ Len(OUT_MAIN) >= 1
    /\ OutTail.header = last.header
    /\ InTail.hash # H.parent_hash

\* C12: difficulty law on reorg, as claimed.  Every accepted reorg has
\* out_tail.total_difficulty >= in_tail.total_difficulty, and a candidate
\* reorg whose output tail has a lower total difficulty than the input tail
\* is rejected with InvalidCellData, the ancestor search not started.
C12_DifficultyLawOnReorg ==
    /\ Accepted("reorg") => OutTail.total_difficulty >= InTail.total_difficulty
    /\ (ReorgCandidate /\ OutTail.total_difficulty < InTail.total_difficulty)
          => (last.result = "InvalidCellData" /\ ~last.search.ran)

\* The DAG root the claim names: what the lookup of entry
\* H.number div EPOCH_LENGTH returns on the roots of the cell dep named by the
\* first byte of cell_dep_index_list.
NamedRoot ==
    get_unchecked(CellDeps[last.tx.cell_dep_index_list[1] + 1],
                  H.number \div EPOCH_LENGTH).merkle_root

C13_Refused ==
    /\ last.pow.called
    /\ ~last.pow.ok
    /\ last.result = "InvalidMerkleProofData"

\* C14: owner-lock preservation.  Every accepted transition has the output's
\* owner lock equal to the input's, so the cell's lock never changes; when
\* both groups hold one cell and the locks differ the result is
\* InvalidDataChange, whatever the witness and the two views are.
C14_OwnerLockPreservation ==
    /\ last.result = "Ok" => last.tx.user_lockscript = last.input_lock
    /\ user_lockscript = last.input_lock
    /\ (/\ last.result # "None"
        /\ last.tx.inputs = 1
        /\ last.tx.outputs = 1
        /\ last.tx.user_lockscript # last.input_lock)
          => last.result = "InvalidDataChange"

\* A transaction that changes the lock, with an unreadable witness, an
\* output view the chain checks refuse and proofs that do not parse.
C14_Witness ==
    /\ last.result = "InvalidDataChange"
    /\ last.tx.user_lockscript # last.input_lock
    /\ last.tx.witness = "absent"
    /\ last.tx.merkle_proof = "malformed"
    /\ OUT_MAIN # IN_MAIN
    /\ Len(OUT_MAIN) = 1

\* The lengths of input and output are those of an append to a ring of the
\* given capacity, and the entries kept are not the input's.
PrefixMismatch(input, output, limit) ==
    \/ /\ Len(input) = Len(output)
       /\ Len(output) = limit
       /\ SubSeq(input, 2, Len(input)) # SubSeq(output, 1, Len(output) - 1)
    \/ /\ ~(Len(input) = Len(output) /\ Len(output) = limit)
       /\ Len(input) < Len(output)
       /\ input # SubSeq(output, 1, Len(output) - 1)

\* The chain-shape violations the claim lists.
ShapeViolation ==
    /\ last.result # "None"
    /\ last.tx = WellFormed
    /\ Len(IN_MAIN) >= 1
    /\ Len(OUT_MAIN) >= 1
    /\ \/ \* a canonical append whose output tail stores another hash
          /\ OutTail.header = last.header
          /\ OutTail.hash # H.hash
       \/ \* a straight extension with a total-difficulty mismatch, a prefix
          \* mismatch or a changed uncle sequence
          /\ last.branch = "extension"
          /\ \/ OutTail.total_difficulty # InTail.total_difficulty + H.difficulty
             \/ PrefixMismatch(IN_MAIN, OUT_MAIN, MAIN_HEADER_CACHE_LIMIT)
             \/ OUT_UNCLE # IN_UNCLE
       \/ \* a reorg that found its fork point, with a prefix mismatch
          /\ last.branch = "reorg"
          /\ last.search.fork >= 0
          /\ SubSeq(IN_MAIN, 2, last.search.fork)
               # SubSeq(OUT_MAIN, 1, Len(OUT_MAIN) - 1)
       \/ \* an uncle append with a prefix mismatch or a changed main sequence
          /\ last.branch = "uncle"
          /\ \/ PrefixMismatch(IN_UNCLE, OUT_UNCLE, UNCLE_HEADER_CACHE_LIMIT)
             \/ OUT_MAIN # IN_MAIN

\* C15: chain-shape violations are reported, as claimed.  Every transaction
\* with one of the listed violations ends with the error value
\* InvalidCellData, not with a panic.
C15_ShapeViolationsReported ==
    ShapeViolation => last.result = "InvalidCellData"

\* C16: non-empty caches, as claimed.  A transaction with an empty main or
\* uncle sequence in its input or its output is never accepted, so the main
\* and the uncle sequence of every accepted output, and of the cell, hold
\* at least one entry.
C16_NonEmptyCaches ==
    /\ (\/ Len(IN_MAIN) = 0
        \/ Len(IN_UNCLE) = 0
        \/ Len(OUT_MAIN) = 0
        \/ Len(OUT_UNCLE) = 0) => last.result # "Ok"
    /\ last.result = "Ok" => (Len(OUT_MAIN) >= 1 /\ Len(OUT_UNCLE) >= 1)
    /\ Len(main) >= 1
    /\ Len(uncle) >= 1

\* C17: group cardinality, as claimed.  Whenever the input group or the
\* output group of the transaction does not hold exactly one cell (none
\* included), the result is TxInvalid.
C17_GroupCardinality ==
    (/\ last.result # "None"
     /\ (last.tx.inputs # 1 \/ last.tx.outputs # 1))
        => last.result = "TxInvalid"

\* The indexes of the input uncle sequence whose entry stores hash h.
UncleMatches(h) == { j \in 1..Len(IN_UNCLE) : IN_UNCLE[j].hash = h }

\* C18: uncle traversal, as claimed.  Every call of traverse_uncle_chain
\* made by the ancestor search finds an entry of IN_UNCLE that stores
\* current_hash whenever there is one, at any index: the call then sets
\* current_hash to the decoded parent hash of such an entry and lowers
\* number by exactly 1; it rejects with InvalidCellData only when no entry
\* stores that hash.
C18_UncleTraversal ==
    \A i \in 1..Len(last.search.calls) :
        LET c == last.search.calls[i] IN
        /\ UncleMatches(c.current_hash) # {} =>
              /\ c.result = "Ok"
              /\ c.new_number = c.number - 1
              /\ \E j \in UncleMatches(c.current_hash) :
                    c.new_hash = decode(IN_UNCLE[j].header).parent_hash
        /\ c.result = "InvalidCellData" => UncleMatches(c.current_hash) = {}

\* The values of number at the turns of the ancestor search's loop: the one
\* it started from, and the one left by each call of traverse_uncle_chain
\* that succeeded.
LoopNumbers ==
    {last.search.start}
    \cup { last.search.calls[i].new_number :
             i \in { j \in 1..Len(last.search.calls) :
                        last.search.calls[j].result = "Ok" } }

\* At a turn of the loop the ancestor lies below the cached range: the input
\* tail's number is above number, and the offset
\* in_tail.number - number - 1 is |IN_MAIN| or more.
BelowCachedRange ==
    /\ last.search.ran
    /\ \E n \in LoopNumbers :
          /\ decode(InTail.header).number > n
          /\ decode(InTail.header).number - n - 1 >= Len(IN_MAIN)

\* C19: reorg ancestor below the cached range, as claimed.  Whenever the
\* search reaches a turn where in_tail.number > number and the offset is
\* |IN_MAIN| or more (equal included), the transaction is rejected with
\* InvalidCellData: no index outside 0..|IN_MAIN|-1 is read.
C19_AncestorBelowCachedRange ==
    BelowCachedRange => last.result = "InvalidCellData"

\* The calls of traverse_uncle_chain that succeeded.
UncleSteps ==
    Cardinality({ j \in 1..Len(last.search.calls) :
                     last.search.calls[j].result = "Ok" })

\* The transaction reached the ancestor search: a reorg whose output tail
\* has a total difficulty not below the input tail's.
SearchReached ==
    /\ last.branch = "reorg"
    /\ OutTail.total_difficulty >= InTail.total_difficulty

\* C20: the reorg search terminates, as claimed.  For every input that
\* reaches the ancestor search (H.number = 0 and 1 and uncle sequences whose
\* entries refer to each other in a cycle included) the search runs from
\* number = H.number - 1, number stays between 0 and that value and never
\* wraps below 0, at most H.number - 1 calls of traverse_uncle_chain
\* succeed, and the search ends by finding a fork point in IN_MAIN or
\* by rejecting with InvalidCellData.
C20_ReorgSearchTerminates ==
    SearchReached =>
        /\ last.search.ran
        /\ \A n \in LoopNumbers : 0 <= n /\ n <= H.number - 1
        /\ UncleSteps <= H.number - 1
        /\ (last.search.fork >= 0 \/ last.result = "InvalidCellData")

\* The lookup of the DAG root ran with an index past the end: the run came
\* through the cell and chain checks and parsed the proofs, the witness names
\* one cell dep, the cell passes the DagsMerkleRoots schema check, and
\* H.number div EPOCH_LENGTH is the number of roots it holds or more.
RootOutOfRange ==
    /\ last.result # "None"
    /\ last.tx.inputs = 1
    /\ last.tx.outputs = 1
    /\ last.tx.user_lockscript = last.input_lock
    /\ last.tx.witness = "ok"
    /\ verify_input_output_data(last.input, last.output, last.header,
                                overflow_checks).result = "Ok"
    /\ parse_proof(last.tx.merkle_proof) = "Ok"
    /\ Len(last.tx.cell_dep_index_list) = 1
    /\ last.tx.cell_dep_index_list[1] + 1 \in DOMAIN CellDeps
    /\ CellDeps[last.tx.cell_dep_index_list[1] + 1].valid
    /\ H.number \div EPOCH_LENGTH
         >= Len(CellDeps[last.tx.cell_dep_index_list[1] + 1].roots)

\* C21: DAG root lookup out of range, as claimed.  When the cell dep passes
\* the schema check and H.number div EPOCH_LENGTH is the number of its roots
\* or more, the result is DagsMerkleRootsDataInvalid.
C21_RootLookupOutOfRange ==
    RootOutOfRange => last.result = "DagsMerkleRootsDataInvalid"

\* The hash the ancestor search was looking for when it stopped: the parent
\* hash of H, or the one the last call of traverse_uncle_chain moved to.
SearchedHash ==
    IF last.search.calls = << >>
    THEN H.parent_hash
    ELSE last.search.calls[Len(last.search.calls)].new_hash

\* C22: shape of an accepted reorg.  An accepted reorg matched the entry of
\* IN_MAIN at index s (from 0); OUT_MAIN without its tail equals the entries
\* 1 up to but excluding s of IN_MAIN, so OUT_MAIN has max(1, s) entries, no
\* more than IN_MAIN, and neither IN_MAIN[0] nor IN_MAIN[s] is in the
\* verified prefix; the same transaction with any other OUT_UNCLE passes the
\* chain checks as well.
C22_AcceptedReorgShape ==
    Accepted("reorg") =>
        LET s == last.search.fork IN
        /\ last.search.ran
        /\ s \in 0..(Len(IN_MAIN) - 1)
        /\ IN_MAIN[s + 1].hash = SearchedHash
        /\ Len(OUT_MAIN) >= 1
        /\ SubSeq(OUT_MAIN, 1, Len(OUT_MAIN) - 1) = SubSeq(IN_MAIN, 2, s)
        /\ Len(OUT_MAIN) = (IF s >= 1 THEN s ELSE 1)
        /\ Len(OUT_MAIN) <= Len(IN_MAIN)
        /\ \A u \in UncleProposals(IN_UNCLE, last.header) :
              verify_input_output_data(last.input,
                                       [main |-> OUT_MAIN, uncle |-> u],
                                       last.header, overflow_checks).result = "Ok"

\* A reorg matched at index 2 or more was accepted with a main sequence
\* shorter than the input's and an uncle sequence that is not the input's.
C22_Witness ==
    /\ Accepted("reorg")
    /\ last.search.fork >= 2
    /\ Len(OUT_MAIN) = last.search.fork
    /\ Len(OUT_MAIN) < Len(IN_MAIN)
    /\ OUT_UNCLE # IN_UNCLE

====
